---------------------------- MODULE Spec2Model ----------------------------
(***************************************************************************)
(* The station digital twin of src/station_simulation.py, driven through   *)
(* the SimPy kernel it is built on: the event queue of the environment     *)
(* (ordered by time, priority, scheduling order), the capacity-1 resources *)
(* with their users list and put queue, the request / release / condition  *)
(* / timeout / process events, and the train and path generators advanced  *)
(* by the processing of those events.  One action processes one queue      *)
(* entry, as Environment.step() does, and runs every callback of it.       *)
(***************************************************************************)
EXTENDS Integers, Sequences, FiniteSets, TLC

\* ------------------------------------------------------------------ bounds
MaxTrains == 3

\* The request handlers of app.py running at a time.
MaxHandlers == 2

\* ----------------------------------------------------------- the topology
Trains == 1..MaxTrains

Handlers == 1..MaxHandlers

Tracks == {"L1_Platform_2", "L2_Approach", "L2_Exit", "L3_Approach",
           "L3_Exit", "L4_Platform_1", "L5_Siding", "Mainline_Crossover"}

Switches == {"P1", "P2", "P3", "P4", "PX1", "PX2", "P5"}

Resources == Tracks \cup Switches

\* Resources built with capacity=2.
CapacityTwo == 1 + 1

\* simpy.Resource(env, capacity=1)
Capacity == 1

\* The keys of path_map.
Routes == {"UP_MAIN", "UP_PLATFORM", "DOWN_MAIN", "DOWN_PLATFORM", "DOWN_SIDING"}

\* What a driver may pass as route_decision: a key of path_map, another
\* string, or None (action_to_route.get of an action outside 0..4).
\* path_map.get returns None for every value that is no key, so one such
\* value stands for them all.
RouteInputs == Routes \cup {"None"}

\* The direction and priority of the trains come from the driver's data,
\* fixed before the run (the arguments of test_runner's calls, the rows of
\* the schedule file of the environment); the list is read cyclically.  It
\* puts a low-priority train ahead of a high-priority one.
Schedules ==
    { << [direction |-> "north", priority |-> "low"],
         [direction |-> "south", priority |-> "low"],
         [direction |-> "north", priority |-> "high"],
         [direction |-> "south", priority |-> "low"] >> }

\* The delays of the runner between two submissions: test_runner yields
\* env.timeout(5), (10) and (15); 0 puts two submissions at one virtual
\* time, 10 puts one at the end of a crossover dwell and inside every
\* other dwell.
Delays == {0, 10}

\* The module-level timing constants at import.
InitialTimes == [TIME_MAIN_SEGMENT |-> 25, TIME_PLATFORM_SEGMENT |-> 40,
                 TIME_AT_PLATFORM |-> 50, TIME_ON_CROSSOVER |-> 10]

\* Switch requests with the siding route's written from P5 down to P3.
RouteSwitchesSidingReversed(route) ==
    CASE route = "UP_MAIN"       -> <<"P1", "P2">>
      [] route = "UP_PLATFORM"   -> <<"P1", "P2">>
      [] route = "DOWN_MAIN"     -> <<"P3", "P4">>
      [] route = "DOWN_PLATFORM" -> <<"P3", "P4">>
      [] route = "DOWN_SIDING"   -> <<"P5", "P4", "P3">>
      [] OTHER                   -> <<>>

\* The switch requests of a route, in the order of its with statement.
RouteSwitches(route) ==
    CASE route = "UP_MAIN"       -> <<"P1", "P2">>
      [] route = "UP_PLATFORM"   -> <<"P1", "P2">>
      [] route = "DOWN_MAIN"     -> <<"P3", "P4">>
      [] route = "DOWN_PLATFORM" -> <<"P3", "P4">>
      [] route = "DOWN_SIDING"   -> <<"P3", "P4", "P5">>
      [] OTHER                   -> <<>>

\* The position a route writes to its switches.
RoutePosition(route) ==
    CASE route = "UP_MAIN"       -> "normal"
      [] route = "UP_PLATFORM"   -> "reverse"
      [] route = "DOWN_MAIN"     -> "normal"
      [] route = "DOWN_PLATFORM" -> "reverse"
      [] route = "DOWN_SIDING"   -> "reverse"
      [] OTHER                   -> "normal"

\* Track steps with the platform route's approach timed as a main segment.
RouteTracksMainApproach(route) ==
    CASE route = "UP_MAIN" ->
           << [track |-> "L2_Approach", dwell |-> "TIME_MAIN_SEGMENT"],
              [track |-> "L2_Exit", dwell |-> "TIME_MAIN_SEGMENT"] >>
      [] route = "UP_PLATFORM" ->
           << [track |-> "L2_Approach", dwell |-> "TIME_MAIN_SEGMENT"],
              [track |-> "L1_Platform_2", dwell |-> "TIME_AT_PLATFORM"] >>
      [] route = "DOWN_MAIN" ->
           << [track |-> "L3_Approach", dwell |-> "TIME_MAIN_SEGMENT"],
              [track |-> "L3_Exit", dwell |-> "TIME_MAIN_SEGMENT"] >>
      [] route = "DOWN_PLATFORM" ->
           << [track |-> "L3_Approach", dwell |-> "TIME_ON_CROSSOVER"],
              [track |-> "L4_Platform_1", dwell |-> "TIME_AT_PLATFORM"] >>
      [] route = "DOWN_SIDING" ->
           << [track |-> "L3_Approach", dwell |-> "TIME_ON_CROSSOVER"],
              [track |-> "L4_Platform_1", dwell |-> "TIME_PLATFORM_SEGMENT"],
              [track |-> "L5_Siding", dwell |-> "TIME_AT_PLATFORM"] >>
      [] OTHER -> <<>>

\* The track steps of a route: the resource, the name it is logged under
\* and the timing constant of its dwell.
RouteTracks(route) ==
    CASE route = "UP_MAIN" ->
           << [track |-> "L2_Approach", dwell |-> "TIME_MAIN_SEGMENT"],
              [track |-> "L2_Exit", dwell |-> "TIME_MAIN_SEGMENT"] >>
      [] route = "UP_PLATFORM" ->
           << [track |-> "L2_Approach", dwell |-> "TIME_ON_CROSSOVER"],
              [track |-> "L1_Platform_2", dwell |-> "TIME_AT_PLATFORM"] >>
      [] route = "DOWN_MAIN" ->
           << [track |-> "L3_Approach", dwell |-> "TIME_MAIN_SEGMENT"],
              [track |-> "L3_Exit", dwell |-> "TIME_MAIN_SEGMENT"] >>
      [] route = "DOWN_PLATFORM" ->
           << [track |-> "L3_Approach", dwell |-> "TIME_ON_CROSSOVER"],
              [track |-> "L4_Platform_1", dwell |-> "TIME_AT_PLATFORM"] >>
      [] route = "DOWN_SIDING" ->
           << [track |-> "L3_Approach", dwell |-> "TIME_ON_CROSSOVER"],
              [track |-> "L4_Platform_1", dwell |-> "TIME_PLATFORM_SEGMENT"],
              [track |-> "L5_Siding", dwell |-> "TIME_AT_PLATFORM"] >>
      [] OTHER -> <<>>

\* ------------------------------------------------------------------ state
VARIABLES
    now,        \* env.now
    queue,      \* the environment's event queue, in processing order
    users,      \* users[r]: the trains whose request holds resource r
    put_queue,  \* put_queue[r]: the trains whose request for r is pending
    points,     \* points[p]: self.points[p]['state']
    event_log,  \* self.event_log
    proc,       \* proc[t]: the frame of train t's train_process and path
    submitted,  \* the number of trains the driver has submitted
    driver,     \* "runner": a test_runner process; "step": StationTrainEnv.step
    schedule,   \* the direction and priority of the trains to submit
    times,      \* the module globals TIME_*
    handlers,   \* handlers[h]: the position and locals of a request handler
    first_run   \* the inputs and the log of an earlier run, kept to compare

vars == <<now, queue, users, put_queue, points, event_log, proc, submitted,
          driver, schedule, times, handlers, first_run>>

\* ------------------------------------------------------- the event queue
URGENT == 0
NORMAL == 1

Ev(time, prio, kind, train, res, lvl) ==
    [time |-> time, prio |-> prio, kind |-> kind, train |-> train,
     res |-> res, lvl |-> lvl]

\* e is processed before an event f scheduled after it: the heap key is
\* (time, priority, eid) and eids grow with every schedule call.
Before(e, f) == e.time < f.time \/ (e.time = f.time /\ e.prio <= f.prio)

\* Environment.schedule: the queue with ev pushed.
Schedule(q, ev) ==
    LET n == Cardinality({i \in 1..Len(q) : Before(q[i], ev)})
    IN  SubSeq(q, 1, n) \o <<ev>> \o SubSeq(q, n + 1, Len(q))

\* A _do_put that grants without looking at the number of users.
TriggerPutNoCapacity(k, r) ==
    IF k.put_queue[r] # <<>>
    THEN LET t == Head(k.put_queue[r])
         IN  [k EXCEPT !.users[r] = @ \cup {t},
                       !.put_queue[r] = Tail(@),
                       !.queue = Schedule(@, Ev(k.now, NORMAL, "request", t, r, 0))]
    ELSE k

\* BaseResource._trigger_put with Resource._do_put: the head of the put
\* queue is granted when a slot is free; _do_put returns None, so the loop
\* stops after the head.
TriggerPut(k, r) ==
    IF k.put_queue[r] # <<>> /\ Cardinality(k.users[r]) < Capacity
    THEN LET t == Head(k.put_queue[r])
         IN  [k EXCEPT !.users[r] = @ \cup {t},
                       !.put_queue[r] = Tail(@),
                       !.queue = Schedule(@, Ev(k.now, NORMAL, "request", t, r, 0))]
    ELSE k

\* The request of a priority resource keyed by the train's priority: a
\* high-priority request is queued ahead of the low-priority ones.
RequestByPriority(k, t, r) ==
    LET q == k.put_queue[r]
        ahead == IF proc[t].priority = "high"
                 THEN SelectSeq(q, LAMBDA x : proc[x].priority = "high")
                 ELSE q
        behind == IF proc[t].priority = "high"
                  THEN SelectSeq(q, LAMBDA x : proc[x].priority # "high")
                  ELSE <<>>
    IN  TriggerPut([k EXCEPT !.put_queue[r] = ahead \o <<t>> \o behind], r)

\* resource.request(): the request joins the put queue and the queue is
\* triggered at once.
Request(k, t, r) ==
    TriggerPut([k EXCEPT !.put_queue[r] = Append(@, t)], r)

\* An exit of the with block that triggers the Release event and keeps the
\* request among the users.
ReleaseKeepsUser(k, t, r) ==
    [k EXCEPT !.queue = Schedule(@, Ev(k.now, NORMAL, "release", t, r, 0))]

\* Request.__exit__ of a granted request: resource.release(request); the
\* Release event is triggered at once (_do_get removes the user) and its
\* processing, later, triggers the put queue.
Release(k, t, r) ==
    [k EXCEPT !.users[r] = @ \ {t},
              !.queue = Schedule(@, Ev(k.now, NORMAL, "release", t, r, 0))]

RECURSIVE RequestAll(_, _, _)
\* The context managers of a with statement, entered left to right.
RequestAll(k, t, rs) ==
    IF rs = <<>> THEN k
    ELSE RequestAll(Request(k, t, Head(rs)), t, Tail(rs))

RECURSIVE ReleaseAll(_, _, _)
\* The context managers of a with statement, exited right to left.
ReleaseAll(k, t, rs) ==
    IF rs = <<>> THEN k
    ELSE ReleaseAll(Release(k, t, rs[Len(rs)]), t, SubSeq(rs, 1, Len(rs) - 1))

\* ---------------------------------------------------------------- the log
LogEntry(time, t, direction, event, details) ==
    [time |-> time, train_id |-> ToString(t), direction |-> direction,
     event |-> event, details |-> details]

\* A log_event that puts the newest entry first.
log_event_first(log, time, t, direction, event, details) ==
    <<LogEntry(time, t, direction, event, details)>> \o log

\* log_event: the entry, stamped with env.now, is appended to the log.
log_event(log, time, t, direction, event, details) ==
    Append(log, LogEntry(time, t, direction, event, details))

NoDetails == [route |-> "", points |-> <<>>, state |-> "", track |-> ""]

\* ------------------------------------------------------------------- Init
\* Timing values not assigned yet.
NoTimes == [TIME_MAIN_SEGMENT |-> 0, TIME_PLATFORM_SEGMENT |-> 0,
            TIME_AT_PLATFORM |-> 0, TIME_ON_CROSSOVER |-> 0]

\* A request handler of app.py that has not been called: its local
\* original_times is not assigned yet.  multiplier is the value of
\* SIMULATION_SPEED_MULTIPLIER it passes to _apply_speed_multiplier, and
\* built the timing constants in force when its env.reset() constructs the
\* topology (kept for the claims; the code keeps no such copy).
IdleHandler == [pc |-> "idle", original_times |-> NoTimes,
                multiplier |-> [num |-> 1, den |-> 1], built |-> NoTimes]

\* No earlier run is on record.
NoRun == [n |-> 0, driver |-> "", schedule |-> <<>>, routes |-> <<>>,
          spawn |-> <<>>, event_log |-> <<>>]

NewFrame == [pc |-> "new", route |-> "", direction |-> "", priority |-> "",
             step |-> 0, count |-> <<0, 0>>]

Init ==
    /\ now = 0
    /\ driver \in {"runner", "step"}
    /\ schedule \in Schedules
    /\ queue = IF driver = "runner"
               THEN <<Ev(0, URGENT, "runner", 0, "", 0)>>
               ELSE <<>>
    /\ users = [r \in Resources |-> {}]
    /\ put_queue = [r \in Resources |-> <<>>]
    /\ points = [p \in Switches |-> "normal"]
    /\ event_log = <<>>
    /\ proc = [t \in Trains |-> NewFrame]
    /\ submitted = 0
    /\ times = InitialTimes
    /\ handlers = [h \in Handlers |-> IdleHandler]
    /\ first_run = NoRun


\* ------------------------------------------------------------ the actions
\* Environment.step(): the head of the queue is popped and the clock is set
\* to its time; K0 is the kernel state its callbacks start from.
K0 == [now |-> Head(queue).time, queue |-> Tail(queue),
       users |-> users, put_queue |-> put_queue]

Commit(k) ==
    /\ now' = k.now
    /\ queue' = k.queue
    /\ users' = k.users
    /\ put_queue' = k.put_queue

Range(s) == {s[i] : i \in 1..Len(s)}

\* The level of the condition a switch request reports to: p1 & p2 & p3 is
\* (p1 & p2) & p3, a condition on p1, p2 inside a condition on it and p3.
CheckLevel(j) == IF j <= 2 THEN 1 ELSE j - 1

\* The outermost condition of n requests, the one the path yields.
TopLevel(n) == n - 1

IndexOf(s, x) == CHOOSE i \in 1..Len(s) : s[i] = x

\* env.process(self.station.train_process(train_id, direction, priority,
\* route_decision)): the frame of the new process and its Initialize event.
Submit(k, t) ==
    [k EXCEPT !.queue = Schedule(@, Ev(k.now, URGENT, "init_train", t, "", 0))]

\* The row of train t in the driver's data.
TrainInfo(t) == schedule[((t - 1) % Len(schedule)) + 1]

SubmittedFrame(t, route) ==
    [NewFrame EXCEPT !.pc = "init", !.route = route,
                     !.direction = TrainInfo(t).direction,
                     !.priority = TrainInfo(t).priority]

\* test_runner: each resumption submits one train, then either suspends on
\* a timeout or, after its last train, returns.
RunnerResume ==
    /\ queue # <<>>
    /\ Head(queue).kind = "runner"
    /\ \E route \in RouteInputs :
         LET t == submitted + 1
             k == Submit(K0, t)
         IN  /\ proc' = [proc EXCEPT ![t] = SubmittedFrame(t, route)]
             /\ submitted' = t
             /\ \/ \E d \in Delays :
                     /\ t < MaxTrains
                     /\ Commit([k EXCEPT !.queue =
                           Schedule(@, Ev(k.now + d, NORMAL, "runner", 0, "", 0))])
                \/ Commit([k EXCEPT !.queue =
                           Schedule(@, Ev(k.now, NORMAL, "runner_done", 0, "", 0))])
    /\ UNCHANGED <<points, event_log, driver, schedule, times, handlers, first_run>>

\* The Process event of a finished test_runner: nothing waits for it.
RunnerDone ==
    /\ queue # <<>>
    /\ Head(queue).kind = "runner_done"
    /\ Commit(K0)
    /\ UNCHANGED <<points, event_log, proc, submitted, driver, schedule, times, handlers, first_run>>

\* A step that returns with the clock still to run: the next step finds
\* the events of the last train in the queue.
EnvStepEarly ==
    /\ driver = "step"
    /\ submitted < MaxTrains
    /\ \E route \in RouteInputs :
         LET t == submitted + 1
         IN  /\ proc' = [proc EXCEPT ![t] = SubmittedFrame(t, route)]
             /\ submitted' = t
             /\ Commit(Submit([now |-> now, queue |-> queue, users |-> users,
                               put_queue |-> put_queue], t))
    /\ UNCHANGED <<points, event_log, driver, schedule, times, handlers, first_run>>

\* StationTrainEnv.step: the previous run() has returned (the queue is
\* empty), the next train of the schedule is submitted and run() is called.
EnvStep ==
    /\ driver = "step"
    /\ queue = <<>>
    /\ submitted < MaxTrains
    /\ \E route \in RouteInputs :
         LET t == submitted + 1
         IN  /\ proc' = [proc EXCEPT ![t] = SubmittedFrame(t, route)]
             /\ submitted' = t
             /\ Commit(Submit([now |-> now, queue |-> queue, users |-> users,
                               put_queue |-> put_queue], t))
    /\ UNCHANGED <<points, event_log, driver, schedule, times, handlers, first_run>>

\* StationTrainEnv.step on an empty schedule (the file has MaxTrains
\* rows): it returns the observation at once.
EnvStepEmpty ==
    /\ driver = "step"
    /\ queue = <<>>
    /\ submitted = MaxTrains
    /\ UNCHANGED vars

\* A lookup that takes every route_decision for a key of path_map.
KnownRouteAlways(route) == TRUE

\* path_function = path_map.get(route_decision); if path_function: ...
KnownRoute(route) == route \in Routes

\* A train_process that starts the path process without yielding it: it
\* goes on to 'finished' while the path has yet to run.
TrainStartNoYield ==
    /\ queue # <<>>
    /\ Head(queue).kind = "init_train"
    /\ LET k == K0
           t == Head(queue).train
           f == proc[t]
           spawned == log_event(event_log, k.now, t, f.direction, "spawned",
                                [NoDetails EXCEPT !.route = f.route])
       IN  /\ event_log' = log_event(spawned, k.now, t, f.direction,
                                      "finished", NoDetails)
           /\ IF KnownRoute(f.route)
              THEN /\ proc' = [proc EXCEPT ![t].pc = "path_init"]
                   /\ Commit([k EXCEPT !.queue =
                         Schedule(@, Ev(k.now, URGENT, "init_path", t, "", 0))])
              ELSE /\ proc' = [proc EXCEPT ![t].pc = "done"]
                   /\ Commit([k EXCEPT !.queue =
                         Schedule(@, Ev(k.now, NORMAL, "train_done", t, "", 0))])
    /\ UNCHANGED <<points, submitted, driver, schedule, times, handlers, first_run>>

\* train_process up to its first yield: 'spawned' is logged; a route of
\* path_map starts the path process and waits for it, any other value
\* falls through to 'finished'.
TrainStart ==
    /\ queue # <<>>
    /\ Head(queue).kind = "init_train"
    /\ LET k == K0
           t == Head(queue).train
           f == proc[t]
           spawned == log_event(event_log, k.now, t, f.direction, "spawned",
                                [NoDetails EXCEPT !.route = f.route])
       IN  IF KnownRoute(f.route)
           THEN /\ event_log' = spawned
                /\ proc' = [proc EXCEPT ![t].pc = "path_init"]
                /\ Commit([k EXCEPT !.queue =
                      Schedule(@, Ev(k.now, URGENT, "init_path", t, "", 0))])
           ELSE /\ event_log' = log_event(spawned, k.now, t, f.direction,
                                           "finished", NoDetails)
                /\ proc' = [proc EXCEPT ![t].pc = "done"]
                /\ Commit([k EXCEPT !.queue =
                      Schedule(@, Ev(k.now, NORMAL, "train_done", t, "", 0))])
    /\ UNCHANGED <<points, submitted, driver, schedule, times, handlers, first_run>>

\* A path function up to its first yield: the switch requests of the with
\* statement are issued, and the path waits for the condition on them.
PathStart ==
    /\ queue # <<>>
    /\ Head(queue).kind = "init_path"
    /\ LET t == Head(queue).train
       IN  /\ Commit(RequestAll(K0, t, RouteSwitches(proc[t].route)))
           /\ proc' = [proc EXCEPT ![t].pc = "wait_switches"]
    /\ UNCHANGED <<points, event_log, submitted, driver, schedule, times, handlers, first_run>>

\* The check of a condition written with | in place of &: it succeeds with
\* the first of its events.
CheckAny(k, t, f, lvl) ==
    IF f.count[lvl] + 1 = 1
    THEN [k EXCEPT !.queue = Schedule(@, Ev(k.now, NORMAL, "condition", t, "", lvl))]
    ELSE k

\* Condition._check: one more event of the condition is processed; the
\* condition succeeds when both are.
Check(k, t, f, lvl) ==
    IF f.count[lvl] + 1 = 2
    THEN [k EXCEPT !.queue = Schedule(@, Ev(k.now, NORMAL, "condition", t, "", lvl))]
    ELSE k

\* A granted switch request is processed: its callbacks are _trigger_get
\* (the get queue is empty) and the _check of the condition it is part of.
SwitchGranted ==
    /\ queue # <<>>
    /\ Head(queue).kind = "request"
    /\ Head(queue).res \in Switches
    /\ LET t == Head(queue).train
           f == proc[t]
           lvl == CheckLevel(IndexOf(RouteSwitches(f.route), Head(queue).res))
       IN  /\ Commit(Check(K0, t, f, lvl))
           /\ proc' = [proc EXCEPT ![t].count[lvl] = @ + 1]
    /\ UNCHANGED <<points, event_log, submitted, driver, schedule, times, handlers, first_run>>

\* A route that writes its position to every switch of the station.
SetPointsAll(pts, route) == [p \in Switches |-> RoutePosition(route)]

\* The positions after a route has written its own to its switches.
SetPoints(pts, route) ==
    [p \in Switches |-> IF p \in Range(RouteSwitches(route))
                        THEN RoutePosition(route) ELSE pts[p]]

\* Track blocks dedented out of the switches' with statement: the switches
\* are released as soon as the positions are written.
EnterFirstTrackDedented(k, t, route) ==
    Request(ReleaseAll(k, t, RouteSwitches(route)), t, RouteTracks(route)[1].track)

\* The track blocks are nested in the with statement of the switches: the
\* first track is requested with the switches held.
EnterFirstTrack(k, t, route) ==
    Request(k, t, RouteTracks(route)[1].track)

\* A condition is processed.  An inner condition reports to the one around
\* it; the outermost resumes the path: the positions are written,
\* 'points_set' is logged and the first track is requested.
ConditionMet ==
    /\ queue # <<>>
    /\ Head(queue).kind = "condition"
    /\ LET k == K0
           t == Head(queue).train
           f == proc[t]
           lvl == Head(queue).lvl
           sw == RouteSwitches(f.route)
       IN  IF lvl < TopLevel(Len(sw))
           THEN /\ Commit(Check(k, t, f, lvl + 1))
                /\ proc' = [proc EXCEPT ![t].count[lvl + 1] = @ + 1]
                /\ UNCHANGED <<points, event_log>>
           ELSE /\ points' = SetPoints(points, f.route)
                /\ event_log' = log_event(event_log, k.now, t, f.direction,
                      "points_set",
                      [NoDetails EXCEPT !.points = sw,
                                        !.state = RoutePosition(f.route)])
                /\ Commit(EnterFirstTrack(k, t, f.route))
                /\ proc' = [proc EXCEPT ![t].pc = "wait_track", ![t].step = 1]
    /\ UNCHANGED <<submitted, driver, schedule, times, handlers, first_run>>

\* A granted track request is processed: the path resumes, logs
\* 'enter_track' and suspends on the timeout of the dwell, whose duration
\* is the module global read at this moment.
TrackGranted ==
    /\ queue # <<>>
    /\ Head(queue).kind = "request"
    /\ Head(queue).res \in Tracks
    /\ LET k == K0
           t == Head(queue).train
           f == proc[t]
           st == RouteTracks(f.route)[f.step]
       IN  /\ event_log' = log_event(event_log, k.now, t, f.direction,
                 "enter_track", [NoDetails EXCEPT !.track = st.track])
           /\ Commit([k EXCEPT !.queue =
                 Schedule(@, Ev(k.now + times[st.dwell], NORMAL, "timeout", t, "", 0))])
           /\ proc' = [proc EXCEPT ![t].pc = "dwell"]
    /\ UNCHANGED <<points, submitted, driver, schedule, times, handlers, first_run>>

\* The end of a dwell: the track's with block is left (the track is
\* released); then the next track is requested or, after the last one, the
\* switches' with statement is left and the path returns.
DwellOver ==
    /\ queue # <<>>
    /\ Head(queue).kind = "timeout"
    /\ LET t == Head(queue).train
           f == proc[t]
           tracks == RouteTracks(f.route)
           k == Release(K0, t, tracks[f.step].track)
       IN  IF f.step < Len(tracks)
           THEN /\ Commit(Request(k, t, tracks[f.step + 1].track))
                /\ proc' = [proc EXCEPT ![t].pc = "wait_track", ![t].step = @ + 1]
           ELSE /\ Commit([ReleaseAll(k, t, RouteSwitches(f.route)) EXCEPT !.queue =
                      Schedule(@, Ev(k.now, NORMAL, "path_done", t, "", 0))])
                /\ proc' = [proc EXCEPT ![t].pc = "path_ended"]
    /\ UNCHANGED <<points, event_log, submitted, driver, schedule, times, handlers, first_run>>

\* A Release event is processed: its callback triggers the put queue of
\* its resource.
Released ==
    /\ queue # <<>>
    /\ Head(queue).kind = "release"
    /\ Commit(TriggerPut(K0, Head(queue).res))
    /\ UNCHANGED <<points, event_log, proc, submitted, driver, schedule, times, handlers, first_run>>

\* The path's Process event is processed: train_process resumes after its
\* yield, logs 'finished' and returns.
PathDone ==
    /\ queue # <<>>
    /\ Head(queue).kind = "path_done"
    /\ LET k == K0
           t == Head(queue).train
       IN  /\ event_log' = log_event(event_log, k.now, t, proc[t].direction,
                 "finished", NoDetails)
           /\ Commit([k EXCEPT !.queue =
                 Schedule(@, Ev(k.now, NORMAL, "train_done", t, "", 0))])
           /\ proc' = [proc EXCEPT ![t].pc = "done"]
    /\ UNCHANGED <<points, submitted, driver, schedule, times, handlers, first_run>>

\* The Process event of a finished train_process: nothing waits for it.
TrainDone ==
    /\ queue # <<>>
    /\ Head(queue).kind = "train_done"
    /\ Commit(K0)
    /\ UNCHANGED <<points, event_log, proc, submitted, driver, schedule, times, handlers, first_run>>

Next ==
    \/ RunnerResume
    \/ RunnerDone
    \/ EnvStep
    \/ EnvStepEmpty
    \/ TrainStart
    \/ PathStart
    \/ SwitchGranted
    \/ ConditionMet
    \/ TrackGranted
    \/ DwellOver
    \/ Released
    \/ PathDone
    \/ TrainDone

Spec == Init /\ [][Next]_vars

\* ------------------------------------------------- vocabulary of the claims
\* The entries of train t in the log, in log order.
TrainLog(t) ==
    LET id == ToString(t)
    IN  SelectSeq(event_log, LAMBDA e : e.train_id = id)

IsPrefix(a, b) == Len(a) <= Len(b) /\ SubSeq(b, 1, Len(a)) = a

\* Train t has a pending request for r.
Waits(t, r) == \E i \in 1..Len(put_queue[r]) : put_queue[r][i] = t

\* Train t's route has issued its switch requests and not yet left the
\* with statement that holds them.
InSwitchBlock(t) == proc[t].pc \in {"wait_switches", "wait_track", "dwell"}

\* The switches train t's route requests jointly.
SwitchSet(t) == Range(RouteSwitches(proc[t].route))

HeldSwitches(t) == {p \in SwitchSet(t) : t \in users[p]}

\* Train t has an entry of this kind in the log.
Logged(t, event) ==
    LET id == ToString(t)
    IN  \E i \in 1..Len(event_log) :
            event_log[i].event = event /\ event_log[i].train_id = id

\* ------------------------------------------------------------------ C1
\* C1: in every reachable state each track resource and each switch
\* resource has at most one holder.
C1_AtMostOneHolder == \A r \in Resources : Cardinality(users[r]) <= 1

\* A resource is held by one train while another train waits for it.
C1_Witness == \E r \in Resources, a, b \in Trains :
    a # b /\ users[r] = {a} /\ Waits(b, r)

\* ------------------------------------------------------------------ C2
\* C2: joint acquisition is all-or-nothing: in no reachable state does a
\* train hold a proper non-empty subset of the switch set its route
\* requests; it holds either none or all of them.
C2_AllOrNothing == \A t \in Trains :
    HeldSwitches(t) = {} \/ HeldSwitches(t) = SwitchSet(t)

\* ------------------------------------------------------------------ C3
\* The work train t has left, by the position of its generators.
Stage(t) ==
    LET f == proc[t]
    IN  CASE f.pc = "new"           -> 40
          [] f.pc = "init"          -> 39
          [] f.pc = "path_init"     -> 38
          [] f.pc = "wait_switches" -> 37 - (f.count[1] + f.count[2])
          [] f.pc = "wait_track"    -> 31 - 4 * f.step
          [] f.pc = "dwell"         -> 30 - 4 * f.step
          [] f.pc = "path_ended"    -> 5
          [] OTHER                  -> 0

\* The sum of the stages of the trains.
SumStage ==
    LET part[n \in 0..MaxTrains] == IF n = 0 THEN 0 ELSE Stage(n) + part[n - 1]
    IN  part[MaxTrains]

\* The number of pending requests.
SumQueueLen == Cardinality({x \in Resources \X Trains : Waits(x[2], x[1])})

\* What is left to do, a natural number.
Work == 10 * SumStage + 2 * SumQueueLen + Len(queue)

\* C3: when the clock is run until idle every submitted train has reached
\* Finished: every step of the kernel and of the driver strictly lowers the
\* work left (so a run ends), and no state with an empty event queue, the
\* only states where the clock stops, leaves a submitted train unfinished
\* or waiting for a resource.
C3_AllFinish ==
    /\ [][Work' < Work /\ Work' >= 0]_vars
    /\ [](queue = <<>> =>
            /\ \A t \in 1..submitted : proc[t].pc = "done" /\ Logged(t, "finished")
            /\ \A r \in Resources : put_queue[r] = <<>> /\ users[r] = {})

\* Every train has been submitted, one of them has waited for a switch
\* another train held, and the clock has run to idle.
C3_Witness ==
    /\ queue = <<>>
    /\ submitted = MaxTrains
    /\ \E t \in Trains, i, j \in 1..Len(event_log) :
         /\ event_log[i].train_id = ToString(t) /\ event_log[i].event = "spawned"
         /\ event_log[j].train_id = ToString(t) /\ event_log[j].event = "points_set"
         /\ event_log[i].time < event_log[j].time

\* ------------------------------------------------------------------ C4
\* What a log entry says, without its time and direction.
Said(e) == [event |-> e.event, details |-> e.details]

Says(log) == [i \in 1..Len(log) |-> Said(log[i])]

\* The entries a train on this route is to log, in order.
TrackEntries(route) ==
    [i \in 1..Len(RouteTracks(route)) |->
        [event |-> "enter_track",
         details |-> [NoDetails EXCEPT !.track = RouteTracks(route)[i].track]]]

Journey(route) ==
    << [event |-> "spawned", details |-> [NoDetails EXCEPT !.route = route]] >>
    \o (IF route \in Routes
        THEN << [event |-> "points_set",
                 details |-> [NoDetails EXCEPT !.points = RouteSwitches(route),
                                               !.state = RoutePosition(route)]] >>
             \o TrackEntries(route)
        ELSE <<>>)
    \o << [event |-> "finished", details |-> NoDetails] >>

\* C4: for every train, its entries in the log are, in order, 'spawned',
\* the 'points_set' and 'enter_track' entries of its route, and one
\* 'finished': at any moment a prefix of that sequence, the whole of it
\* once the train is done, and nothing of it before the train is started.
C4_TrainSequence == \A t \in Trains :
    LET said == Says(TrainLog(t))
        journey == Journey(proc[t].route)
    IN  /\ IsPrefix(said, journey)
        /\ proc[t].pc = "done" => said = journey
        /\ proc[t].pc \in {"new", "init"} => said = <<>>
        /\ Logged(t, "finished") => proc[t].pc = "done"

\* Two trains on the platform route and the siding route are done, their
\* entries interleaved in the log.
C4_Witness == \E a, b \in Trains :
    /\ proc[a].pc = "done" /\ proc[a].route = "UP_PLATFORM"
    /\ proc[b].pc = "done" /\ proc[b].route = "DOWN_SIDING"
    /\ \E i, j, k \in 1..Len(event_log) :
         /\ i < j /\ j < k
         /\ event_log[i].train_id = ToString(a)
         /\ event_log[j].train_id = ToString(b)
         /\ event_log[k].train_id = ToString(a)

\* ------------------------------------------------------------------ C5
NonDecreasing(log) == \A i, j \in 1..Len(log) : i <= j => log[i].time <= log[j].time

\* C5: the times of the log are non-decreasing along the whole log, and the
\* log is append-only: every step leaves the old log a prefix of the new.
C5_LogMonotone ==
    [][IsPrefix(event_log, event_log') /\ NonDecreasing(event_log')]_vars

\* In step mode a second run has appended to the log of a first, and the
\* clock has advanced between entries.
C5_Witness ==
    /\ driver = "step"
    /\ submitted >= 2
    /\ Logged(2, "finished")
    /\ \E i, j \in 1..Len(event_log) : event_log[i].time < event_log[j].time

\* ------------------------------------------------------------------ C6
\* The place in the log of train t's entry of this kind (for 'enter_track',
\* on this track).
EntryIdx(t, event, track) == CHOOSE i \in 1..Len(event_log) :
    /\ event_log[i].train_id = ToString(t)
    /\ event_log[i].event = event
    /\ event_log[i].details.track = track

FinishedTime(t) == event_log[EntryIdx(t, "finished", "")].time

\* The train a log entry is about.
TrainOf(e) == CHOOSE t \in Trains : ToString(t) = e.train_id

\* The step of train t's route that is on track r.
TrackStep(t, r) == CHOOSE i \in 1..Len(RouteTracks(proc[t].route)) :
    RouteTracks(proc[t].route)[i].track = r

DwellOf(t, i) == times[RouteTracks(proc[t].route)[i].dwell]

\* The dwells of train t on the tracks before step n of its route.
DwellsBefore(t, n) ==
    LET part[i \in 0..3] == IF i = 0 THEN 0 ELSE DwellOf(t, i) + part[i - 1]
    IN  part[n - 1]

\* The end of the dwell that starts with the 'enter_track' at place i of
\* the log, when its train releases the track.
TrackReleaseTime(i) ==
    LET a == TrainOf(event_log[i])
    IN  event_log[i].time + DwellOf(a, TrackStep(a, event_log[i].details.track))

\* The train spawned at place j of the log was submitted while the train
\* that entered a track at place i occupied that track: the 'spawned'
\* follows the 'enter_track' in the log and precedes the end of the dwell.
SubmittedWhileOccupied(i, j) ==
    /\ i < j
    /\ event_log[i].event = "enter_track"
    /\ event_log[j].event = "spawned"
    /\ event_log[j].train_id # event_log[i].train_id
    /\ event_log[j].time < TrackReleaseTime(i)

\* Place k of the log is the 'enter_track' of the train spawned at place j
\* on the track entered at place i.
EntersSameTrack(i, j, k) ==
    /\ event_log[k].event = "enter_track"
    /\ event_log[k].train_id = event_log[j].train_id
    /\ event_log[k].details.track = event_log[i].details.track

\* No train whose route shares a switch with a's was submitted between a
\* and b.
NextOnSwitches(a, b) == \A c \in Trains :
    (a < c /\ c < b) => SwitchSet(c) \cap SwitchSet(a) = {}

\* C6 as stated: when the second train is submitted while the first still
\* occupies a track both require, the second's 'enter_track' time for that
\* track equals the time the first releases that track (the end of the
\* first's dwell on it).
C6_EnterAtTrackRelease ==
    \A i \in 1..Len(event_log) : event_log[i].event = "enter_track" =>
        \A j \in (i + 1)..Len(event_log) : SubmittedWhileOccupied(i, j) =>
            \A k \in 1..Len(event_log) : EntersSameTrack(i, j, k) =>
                event_log[k].time = TrackReleaseTime(i)

\* C6 as amended: in that case the second train's 'enter_track' time for
\* the track is never earlier than the first train's 'finished' time, when
\* the first train releases the switches it has held over its whole route;
\* and when no other train on those switches was submitted between the two
\* it equals that time plus the second train's dwells on the tracks that
\* precede this one on its route.  It is later than its submission time.
C6_EnterAfterSwitchRelease ==
    \A i \in 1..Len(event_log) : event_log[i].event = "enter_track" =>
        \A j \in (i + 1)..Len(event_log) : SubmittedWhileOccupied(i, j) =>
            \A k \in 1..Len(event_log) : EntersSameTrack(i, j, k) =>
                LET a == TrainOf(event_log[i])
                    b == TrainOf(event_log[j])
                    r == event_log[i].details.track
                IN  /\ Logged(a, "finished")
                    /\ event_log[k].time >= FinishedTime(a)
                    /\ event_log[k].time > event_log[j].time
                    /\ NextOnSwitches(a, b) =>
                          event_log[k].time =
                              FinishedTime(a) + DwellsBefore(b, TrackStep(b, r))

\* The second train, submitted while the first was on the platform track,
\* has entered that track as the second track of its own route.
C6_Witness == \E i, j, k \in 1..Len(event_log) :
    /\ SubmittedWhileOccupied(i, j)
    /\ EntersSameTrack(i, j, k)
    /\ event_log[i].details.track = "L4_Platform_1"
    /\ NextOnSwitches(TrainOf(event_log[i]), TrainOf(event_log[j]))

\* ------------------------------------------------------------------ C7
SidingSwitches == {"P3", "P4", "P5"}

\* C7: for a train on DOWN_SIDING, the step that logs its 'points_set'
\* starts and ends with it the only holder of P3, P4 and P5; as long as
\* another train holds one of the three it has no 'points_set' in the log
\* unless it has left its switches again; and a position of P3, P4 or P5
\* changes only in a step that logs the 'points_set' of a train holding
\* every switch of its route.
C7_SidingPointsSet ==
    [][/\ \A t \in Trains : proc[t].route = "DOWN_SIDING" =>
            /\ (~Logged(t, "points_set") /\ Logged(t, "points_set")') =>
                  \A p \in SidingSwitches : users[p] = {t} /\ users'[p] = {t}
            /\ (\E p \in SidingSwitches : users'[p] \ {t} # {}) =>
                  (Logged(t, "points_set")' => proc'[t].pc \in {"path_ended", "done"})
       /\ (\E p \in SidingSwitches : points'[p] # points[p]) =>
             \E t \in Trains :
                /\ ~Logged(t, "points_set") /\ Logged(t, "points_set")'
                /\ \A p \in SwitchSet(t) : users[p] = {t} /\ users'[p] = {t}
      ]_vars

\* A siding train has logged 'points_set' after holding P5 alone while
\* another train was on P3 and P4: it was spawned earlier than it set them.
C7_Witness == \E t \in Trains, i, j \in 1..Len(event_log) :
    /\ proc[t].route = "DOWN_SIDING"
    /\ event_log[i].train_id = ToString(t) /\ event_log[i].event = "spawned"
    /\ event_log[j].train_id = ToString(t) /\ event_log[j].event = "points_set"
    /\ event_log[i].time < event_log[j].time
    /\ points["P5"] = "reverse"

\* ------------------------------------------------------------------ C8
\* C8: the step that starts a train whose route is none of the five appends
\* exactly its 'spawned' and its 'finished', both at the current time, and
\* ends the train; it leaves every holder, every wait queue, every switch
\* position and every other train as they were.  Such a train is never a
\* holder or a waiter, and once done its entries are those two.
C8_UnknownRoute ==
    [][\A t \in Trains : (proc'[t].pc # "new" /\ proc'[t].route \notin Routes) =>
          /\ \A r \in Resources : t \notin users'[r] /\ ~Waits(t, r)'
          /\ (proc[t].pc = "init" /\ proc'[t].pc # "init") =>
                /\ proc'[t].pc = "done"
                /\ Len(event_log') = Len(event_log) + 2
                /\ IsPrefix(event_log, event_log')
                /\ Says(TrainLog(t))' = Journey(proc[t].route)
                /\ Journey(proc[t].route) =
                      << [event |-> "spawned",
                          details |-> [NoDetails EXCEPT !.route = proc[t].route]],
                         [event |-> "finished", details |-> NoDetails] >>
                /\ \A i \in {Len(event_log) + 1, Len(event_log) + 2} :
                      /\ event_log'[i].train_id = ToString(t)
                      /\ event_log'[i].time = now'
                /\ users' = users
                /\ put_queue' = put_queue
                /\ points' = points
                /\ \A o \in Trains \ {t} : proc'[o] = proc[o]
      ]_vars

\* A train with an unknown route has finished while another train held its
\* switches, and that train has gone on to finish as well.
C8_Witness == \E t, o \in Trains, i, j \in 1..Len(event_log) :
    /\ proc[t].route \notin Routes /\ proc[t].pc = "done"
    /\ proc[o].pc = "done" /\ proc[o].route \in Routes
    /\ i < j
    /\ event_log[i].train_id = ToString(o) /\ event_log[i].event = "points_set"
    /\ event_log[j].train_id = ToString(t) /\ event_log[j].event = "spawned"
    /\ event_log[j].time < FinishedTime(o)

\* ------------------------------------------------------------------ C9
\* A log entry without its direction.
Timed(log) == [i \in 1..Len(log) |->
    [time |-> log[i].time, train_id |-> log[i].train_id,
     event |-> log[i].event, details |-> log[i].details]]

ScenarioA ==
    << [time |-> 0, train_id |-> "1", event |-> "spawned",
        details |-> [NoDetails EXCEPT !.route = "UP_PLATFORM"]],
       [time |-> 0, train_id |-> "1", event |-> "points_set",
        details |-> [NoDetails EXCEPT !.points = <<"P1", "P2">>, !.state = "reverse"]],
       [time |-> 0, train_id |-> "1", event |-> "enter_track",
        details |-> [NoDetails EXCEPT !.track = "L2_Approach"]],
       [time |-> 10, train_id |-> "1", event |-> "enter_track",
        details |-> [NoDetails EXCEPT !.track = "L1_Platform_2"]],
       [time |-> 60, train_id |-> "1", event |-> "finished", details |-> NoDetails] >>

\* C9: a single train on UP_PLATFORM, submitted at time 0 on the empty
\* topology with the crossover time 10 and the platform dwell 50, logs
\* (0 spawned), (0 points_set P1,P2 reverse), (0 enter_track L2_Approach),
\* (10 enter_track L1_Platform_2), (60 finished), in that order and
\* nothing else.
C9_ScenarioA ==
    (submitted = 1 /\ proc[1].route = "UP_PLATFORM") =>
        /\ IsPrefix(Timed(event_log), ScenarioA)
        /\ proc[1].pc = "done" => Timed(event_log) = ScenarioA
        /\ proc[1].pc = "done" => points["P1"] = "reverse" /\ points["P2"] = "reverse"

C9_Witness ==
    /\ submitted = 1
    /\ proc[1].route = "UP_PLATFORM"
    /\ proc[1].pc = "done"
    /\ queue = <<>>
    /\ times.TIME_ON_CROSSOVER = 10
    /\ times.TIME_AT_PLATFORM = 50

\* ----------------------------------------------------------------- C10
\* Train t's path has issued its switch requests.
HasRequested(t) == proc[t].pc \notin {"new", "init", "path_init"}

\* C10: every resource is granted in the order of the requests, whatever
\* the priorities.  A step grants r to the head of r's wait queue, or to a
\* new requester when nobody waits; a wait queue only loses its head and
\* gains at its tail; and of two trains whose routes request a switch, the
\* one submitted first requests it first and is granted it first.
C10_Fifo ==
    [][/\ \A r \in Resources, b \in Trains : (b \in users'[r] /\ b \notin users[r]) =>
            IF Waits(b, r) THEN Head(put_queue[r]) = b ELSE put_queue[r] = <<>>
       /\ \A r \in Resources : \E n \in 0..Len(put_queue[r]) :
            IsPrefix(SubSeq(put_queue[r], n + 1, Len(put_queue[r])), put_queue'[r])
       /\ \A a, b \in Trains : (a < b /\ HasRequested(b)') =>
            \A r \in SwitchSet(a)' \cap SwitchSet(b)' :
                /\ HasRequested(a)'
                /\ ~Waits(b, r)' => ~Waits(a, r)'
                /\ (Waits(a, r)' /\ Waits(b, r)') =>
                      IndexOf(put_queue'[r], a) < IndexOf(put_queue'[r], b)
      ]_vars

\* A high-priority train waits for a switch behind a low-priority train
\* that requested it earlier, while a third train holds it.
C10_Witness == \E r \in Switches, a, b, c \in Trains :
    /\ users[r] = {c}
    /\ Len(put_queue[r]) = 2
    /\ put_queue[r][1] = a /\ put_queue[r][2] = b
    /\ proc[a].priority = "low" /\ proc[b].priority = "high"

\* ----------------------------------------------------------------- C11
\* Train t is between its 'points_set' and the exit of the with statement
\* of its switches.
JointOwner(t) == proc[t].pc \in {"wait_track", "dwell"}

\* C11: no two trains are joint owners of overlapping switch sets at once:
\* of the trains whose routes use P1/P2, and of those whose routes use
\* P3/P4(/P5), at most one is between its 'points_set' and its release of
\* the switches; that train is the only user of each of its switches, has
\* 'points_set' in the log and has not finished.
C11_OneJointOwner ==
    /\ \A a, b \in Trains : (a # b /\ JointOwner(a) /\ JointOwner(b)) =>
          SwitchSet(a) \cap SwitchSet(b) = {}
    /\ \A a \in Trains :
          /\ JointOwner(a) =>
                /\ \A p \in SwitchSet(a) : users[p] = {a}
                /\ Logged(a, "points_set")
                /\ ~Logged(a, "finished")
          /\ (Logged(a, "points_set") /\ ~JointOwner(a)) =>
                proc[a].pc \in {"path_ended", "done"}

\* One train owns P1/P2 and another P3/P4 while a third, whose route uses
\* the switches of one of them, waits.
C11_Witness == \E a, b, c \in Trains :
    /\ JointOwner(a) /\ JointOwner(b) /\ a # b
    /\ proc[c].pc = "wait_switches"
    /\ SwitchSet(c) \cap SwitchSet(a) # {}

\* ----------------------------------------------------- a run and its replay
\* The direction and priority rows a replay may be given in place of the
\* first run's: every direction and every priority the other way round.
ReplaySchedules ==
    { << [direction |-> "south", priority |-> "high"],
         [direction |-> "north", priority |-> "high"],
         [direction |-> "south", priority |-> "low"],
         [direction |-> "north", priority |-> "high"] >> }

\* The inputs and the log of the run that has just gone idle.
RunRecord ==
    [n |-> submitted, driver |-> driver, schedule |-> schedule,
     routes |-> [t \in 1..submitted |-> proc[t].route],
     spawn |-> [t \in 1..submitted |->
                  event_log[EntryIdx(t, "spawned", "")].time],
     event_log |-> event_log]

\* A reset that keeps the old environment, and with it its clock.
RestartKeepsClock ==
    /\ first_run = NoRun
    /\ queue = <<>>
    /\ submitted >= 1
    /\ first_run' = RunRecord
    /\ schedule' \in {schedule} \cup ReplaySchedules
    /\ now' = now
    /\ queue' = IF driver = "runner"
                THEN <<Ev(0, URGENT, "runner", 0, "", 0)>>
                ELSE <<>>
    /\ users' = [r \in Resources |-> {}]
    /\ put_queue' = [r \in Resources |-> <<>>]
    /\ points' = [p \in Switches |-> "normal"]
    /\ event_log' = <<>>
    /\ proc' = [t \in Trains |-> NewFrame]
    /\ submitted' = 0
    /\ UNCHANGED <<driver, times, handlers>>

\* StationTrainEnv.reset, or a new run of the test script: a fresh
\* Environment and a fresh StationSimulation are constructed and the
\* driver's data is read again.  The run that has ended is put on record.
Restart ==
    /\ first_run = NoRun
    /\ queue = <<>>
    /\ submitted >= 1
    /\ first_run' = RunRecord
    /\ schedule' \in {schedule} \cup ReplaySchedules
    /\ now' = 0
    /\ queue' = IF driver = "runner"
                THEN <<Ev(0, URGENT, "runner", 0, "", 0)>>
                ELSE <<>>
    /\ users' = [r \in Resources |-> {}]
    /\ put_queue' = [r \in Resources |-> <<>>]
    /\ points' = [p \in Switches |-> "normal"]
    /\ event_log' = <<>>
    /\ proc' = [t \in Trains |-> NewFrame]
    /\ submitted' = 0
    /\ UNCHANGED <<driver, times, handlers>>

\* The driver of a replay submits what the first run's driver submitted:
\* the same number of trains, on the same routes, at the same times.
SameInputs ==
    first_run.n > 0 =>
        /\ submitted <= first_run.n
        /\ \A t \in 1..submitted : proc[t].route = first_run.routes[t]
        /\ \A i \in 1..Len(queue) :
              /\ queue[i].kind = "runner" =>
                    /\ submitted < first_run.n
                    /\ queue[i].time = first_run.spawn[submitted + 1]
              /\ queue[i].kind = "runner_done" => submitted = first_run.n

ReplayNext ==
    \/ Next /\ SameInputs'
    \/ Restart

\* A run, a fresh construction and a second run on the same inputs.
ReplaySpec == Init /\ [][ReplayNext]_vars

\* ----------------------------------------------------------------- C12
\* The run in progress is a replay of the run on record with the same
\* directions and priorities.
SameRun == first_run.n > 0 /\ schedule = first_run.schedule

\* The replay has submitted every train of the first run and gone idle.
ReplayOver == first_run.n > 0 /\ submitted = first_run.n /\ queue = <<>>

\* C12: a second run on a freshly constructed topology with the same
\* durations and the same submissions (directions, priorities, routes,
\* submission times) produces the log of the first, entry for entry: at
\* every moment its log is a prefix of the first run's log, and the whole
\* of it once the run is over.
C12_SameLog ==
    SameRun =>
        /\ IsPrefix(event_log, first_run.event_log)
        /\ ReplayOver => event_log = first_run.event_log

\* The replay of a run of the runner with every train on the same two
\* switches, submitted at one virtual time, is over.
C12_Witness ==
    /\ SameRun
    /\ ReplayOver
    /\ driver = "runner"
    /\ submitted = MaxTrains
    /\ \A t \in Trains : proc[t].route \in {"UP_MAIN", "UP_PLATFORM"}
    /\ \A t \in Trains : first_run.spawn[t] = 0

\* ----------------------------------------------------------------- C13
\* The Release event of train t for resource r is in queue q.
ReleaseIn(q, t, r) == \E i \in 1..Len(q) :
    q[i].kind = "release" /\ q[i].train = t /\ q[i].res = r

\* C13: the step in which a train logs 'finished' ends with it holding no
\* resource and waiting for none, and so it stays; a train leaves the users
\* of a resource only in a step of its own path that issues its release of
\* that resource, a release is only ever issued for a resource to its
\* holder, who holds it no longer afterwards (one release for each grant),
\* and when the clock is idle every grant has been released.
C13_Released ==
    [][/\ \A t \in Trains : Logged(t, "finished")' =>
            \A r \in Resources : t \notin users'[r] /\ ~Waits(t, r)'
       /\ \A t \in Trains, r \in Resources :
            /\ (t \in users[r] /\ t \notin users'[r]) =>
                  /\ Head(queue).kind = "timeout" /\ Head(queue).train = t
                  /\ ReleaseIn(queue', t, r)
            /\ (ReleaseIn(queue', t, r) /\ ~ReleaseIn(queue, t, r)) =>
                  /\ users[r] = {t}
                  /\ t \notin users'[r]
       /\ queue' = <<>> => \A r \in Resources : users'[r] = {} /\ put_queue'[r] = <<>>
      ]_vars

\* A siding train that had to wait for its switches has finished, and a
\* train behind it now owns the switches it released.
C13_Witness == \E a, b \in Trains :
    /\ proc[a].route = "DOWN_SIDING"
    /\ Logged(a, "finished")
    /\ a < b
    /\ JointOwner(b)
    /\ "P3" \in SwitchSet(b)
    /\ \E c \in Trains : c < a /\ "P3" \in SwitchSet(c)

\* ----------------------------------------------------------------- C14
\* The step logs train t's 'points_set'.
SetsPoints(t) == ~Logged(t, "points_set") /\ Logged(t, "points_set")'

\* C14: a switch position changes only in the step that logs the
\* 'points_set' of a train whose joint request includes the switch and
\* which holds every switch of that request; that step leaves every switch
\* of the request at the route's position; and as long as the train has not
\* released its switches their positions stay what it wrote (the steps of
\* its dwells, track requests and track releases change no position).
C14_PositionWrites ==
    [][/\ \A p \in Switches : points'[p] # points[p] =>
            \E t \in Trains :
                /\ SetsPoints(t)
                /\ p \in SwitchSet(t)
                /\ \A q \in SwitchSet(t) : users[q] = {t} /\ users'[q] = {t}
       /\ \A t \in Trains :
            /\ SetsPoints(t) =>
                  \A q \in SwitchSet(t) : points'[q] = RoutePosition(proc[t].route)
            /\ JointOwner(t)' =>
                  \A q \in SwitchSet(t) : points'[q] = RoutePosition(proc'[t].route)
            /\ (JointOwner(t) /\ ~SetsPoints(t) /\ Head(queue).train = t) =>
                  points' = points
      ]_vars

\* Two trains own their switches at once, one with P1 and P2 reversed, the
\* other with P3 and P4 set back to normal after a platform train.
C14_Witness == \E a, b, c \in Trains :
    /\ JointOwner(a) /\ proc[a].route = "UP_PLATFORM"
    /\ JointOwner(b) /\ proc[b].route = "DOWN_MAIN"
    /\ proc[c].route = "DOWN_PLATFORM" /\ proc[c].pc = "done"
    /\ points["P1"] = "reverse" /\ points["P3"] = "normal"

\* ----------------------------------------------------------------- C15
\* The fixed global order of the switches, by name.
SwitchRank(p) ==
    CASE p = "P1" -> 1 [] p = "P2" -> 2 [] p = "P3" -> 3 [] p = "P4" -> 4
      [] p = "P5" -> 5 [] p = "PX1" -> 6 [] p = "PX2" -> 7

\* The joint request of every route lists its switches in that order.
RequestsInOrder == \A route \in Routes :
    \A i, j \in 1..Len(RouteSwitches(route)) :
        i < j => SwitchRank(RouteSwitches(route)[i]) < SwitchRank(RouteSwitches(route)[j])

\* Train a waits for train b: a has a pending request for a resource that
\* b holds or for which b's request is queued ahead of a's.
WaitsFor(a, b) ==
    /\ a # b
    /\ \E r \in Resources :
          /\ Waits(a, r)
          /\ \/ b \in users[r]
             \/ Waits(b, r) /\ IndexOf(put_queue[r], b) < IndexOf(put_queue[r], a)

\* The wait-for graph has no cycle: every non-empty set of trains has a
\* member that waits for no member of the set.
NoWaitCycle ==
    (\E r \in Resources : Len(put_queue[r]) > 0) =>
        LET edges == {e \in Trains \X Trains : WaitsFor(e[1], e[2])}
        IN  \A S \in SUBSET Trains : S # {} =>
                \E a \in S : \A b \in S : <<a, b>> \notin edges

\* C15: the joint switch request of every route lists its switches in one
\* fixed global order (P1 before P2, P3 before P4 before P5); a step that
\* issues a train's request for a switch starts with the train holding no
\* track and waiting for none; and in every reachable state the wait-for
\* graph among the trains has no cycle.
C15_NoCircularWait ==
    /\ [](RequestsInOrder /\ NoWaitCycle)
    /\ [][\A t \in Trains, p \in Switches :
             ((Waits(t, p)' \/ t \in users'[p]) /\ ~Waits(t, p) /\ t \notin users[p]) =>
                 \A r \in Tracks : t \notin users[r] /\ ~Waits(t, r)]_vars

\* A chain of waits: a siding train holds P5 and waits for P3, which a
\* main-line train owns, and a second siding train waits for P5.
C15_Witness == \E a, b, c \in Trains :
    /\ JointOwner(a) /\ "P3" \in SwitchSet(a)
    /\ users["P5"] = {b} /\ Waits(b, "P3")
    /\ Waits(c, "P5")
    /\ WaitsFor(c, b) /\ WaitsFor(b, a)

\* ------------------------------------------------- the request handlers
\* The value of SIMULATION_SPEED_MULTIPLIER a handler reads: 2.0, the value
\* at import, as a fraction num/den.  (set_speed accepts any value from
\* 0.1 to 10.0; the handlers are followed with the value at import.)
Multipliers == {[num |-> 2, den |-> 1]}

\* The handler whose topology is the one of the model; the runs of the
\* other handlers, on topologies of their own, are not followed.
Observed == 1

\* _apply_speed_multiplier: each constant becomes int(constant / multiplier).
Scaled(t, m) == [c \in DOMAIN t |-> (t[c] * m.den) \div m.num]

\* original_times = _backup_original_times()
HandlerBackup(h) ==
    /\ handlers[h].pc = "idle"
    /\ handlers' = [handlers EXCEPT ![h].pc = "backed_up",
                                    ![h].original_times = times]
    /\ UNCHANGED <<now, queue, users, put_queue, points, event_log, proc,
                   submitted, driver, schedule, times, first_run>>

\* _apply_speed_multiplier(SIMULATION_SPEED_MULTIPLIER)
HandlerApply(h) ==
    /\ handlers[h].pc = "backed_up"
    /\ \E m \in Multipliers :
         /\ times' = Scaled(times, m)
         /\ handlers' = [handlers EXCEPT ![h].pc = "applied", ![h].multiplier = m]
    /\ UNCHANGED <<now, queue, users, put_queue, points, event_log, proc,
                   submitted, driver, schedule, first_run>>

\* env = StationTrainEnv(...); env.reset(): the handler's topology is
\* constructed.
HandlerReset(h) ==
    /\ handlers[h].pc = "applied"
    /\ handlers' = [handlers EXCEPT ![h].pc = "running", ![h].built = times]
    /\ UNCHANGED <<now, queue, users, put_queue, points, event_log, proc,
                   submitted, driver, schedule, times, first_run>>

\* The loop of env.step calls of the observed handler: one step of its
\* driver or of its environment's clock.
HandlerRun ==
    /\ handlers[Observed].pc = "running"
    /\ \/ EnvStep
       \/ TrainStart
       \/ PathStart
       \/ SwitchGranted
       \/ ConditionMet
       \/ TrackGranted
       \/ DwellOver
       \/ Released
       \/ PathDone
       \/ TrainDone

\* finally: _restore_original_times(original_times), once the loop over
\* the schedule has ended.
HandlerRestore(h) ==
    /\ handlers[h].pc = "running"
    /\ h = Observed => (queue = <<>> /\ submitted = MaxTrains)
    /\ times' = handlers[h].original_times
    /\ handlers' = [handlers EXCEPT ![h].pc = "returned"]
    /\ UNCHANGED <<now, queue, users, put_queue, points, event_log, proc,
                   submitted, driver, schedule, first_run>>

AppInit == Init /\ driver = "step"

AppNext ==
    \/ \E h \in Handlers : HandlerBackup(h)
    \/ \E h \in Handlers : HandlerApply(h)
    \/ \E h \in Handlers : HandlerReset(h)
    \/ \E h \in Handlers : HandlerRestore(h)
    \/ HandlerRun

\* The server of app.py: handlers of concurrent requests, each a thread.
AppSpec == AppInit /\ [][AppNext]_vars

\* ----------------------------------------------------------------- C16
\* The timing constant of the dwell train t starts when its request for
\* the track of its current step is granted.
DwellConstant(t) == RouteTracks(proc[t].route)[proc[t].step].dwell

\* C16: every dwell of a train of the observed topology lasts the value its
\* timing constant had when the topology was constructed, whatever has been
\* written to the constants since: the step that starts a dwell schedules
\* its end at the current time plus that value.
C16_DurationsAtConstruction ==
    [][\A t \in Trains : (proc[t].pc = "wait_track" /\ proc'[t].pc = "dwell") =>
          \E i \in 1..Len(queue') :
              /\ queue'[i].kind = "timeout"
              /\ queue'[i].train = t
              /\ queue'[i].time = now' + handlers[Observed].built[DwellConstant(t)]
      ]_vars

\* ----------------------------------------------------------------- C17
\* The run in progress is a replay of the run on record with other
\* directions and priorities.
OtherTrains == first_run.n > 0 /\ schedule # first_run.schedule

\* C17: a run that differs from another only in the directions and
\* priorities of its trains has the same log but for the direction field:
\* at every moment its log without the directions is a prefix of the other
\* run's without the directions, and equal to it once the run is over;
\* the direction of an entry is the direction its train was submitted with.
C17_DirectionPriorityIgnored ==
    OtherTrains =>
        /\ IsPrefix(Timed(event_log), Timed(first_run.event_log))
        /\ ReplayOver => Timed(event_log) = Timed(first_run.event_log)
        /\ \A i \in 1..Len(event_log) :
              event_log[i].direction = TrainInfo(TrainOf(event_log[i])).direction

\* The replay, with the priorities the other way round, of a run of the
\* runner with every train on the same two switches at one virtual time is
\* over: a low-priority train was ahead of a high-priority one in one run
\* and a high-priority train ahead of a low-priority one in the other.
C17_Witness ==
    /\ OtherTrains
    /\ ReplayOver
    /\ driver = "runner"
    /\ submitted = MaxTrains
    /\ \A t \in Trains : proc[t].route \in {"DOWN_MAIN", "DOWN_SIDING"}
    /\ \A t \in Trains : first_run.spawn[t] = 0
    /\ \E a, b \in Trains :
          /\ a < b
          /\ proc[a].priority = "high" /\ proc[b].priority = "low"
          /\ first_run.schedule[a].priority = "low"
          /\ first_run.schedule[b].priority = "high"

\* ----------------------------------------------------------------- C18
\* The rows left in self.schedule.
Remaining == MaxTrains - submitted

\* The entries train t is to log on its route, with its id.
Block(t) == [i \in 1..Len(Journey(proc[t].route)) |->
    [train_id |-> ToString(t), said |-> Journey(proc[t].route)[i]]]

\* The complete sequences of trains 1..n, one after the other.
Blocks ==
    LET part[n \in 0..MaxTrains] == IF n = 0 THEN <<>> ELSE part[n - 1] \o Block(n)
    IN  part[submitted]

\* The log by train id, event and details.
IdSaid(log) == [i \in 1..Len(log) |->
    [train_id |-> log[i].train_id, said |-> Said(log[i])]]

\* C18: under step(), a step is entered with the clock idle, takes one row
\* off the schedule and submits one train; when it returns (the clock is
\* idle again) every submitted train has logged 'finished', every resource
\* is free with an empty wait queue, and the log is the complete
\* spawned..finished sequences of the trains, one step's after the other's
\* (while a step runs, those of the earlier steps and a part of its own);
\* a step on an empty schedule changes nothing.
C18_StepByStep ==
    /\ [](driver = "step" =>
            /\ IsPrefix(IdSaid(event_log), Blocks)
            /\ queue = <<>> =>
                  /\ IdSaid(event_log) = Blocks
                  /\ \A t \in 1..submitted : Logged(t, "finished")
                  /\ \A r \in Resources : users[r] = {} /\ put_queue[r] = <<>>)
    /\ [][driver = "step" =>
            /\ submitted' # submitted =>
                  /\ queue = <<>>
                  /\ Remaining > 0 /\ Remaining' = Remaining - 1
                  /\ Len(queue') = 1 /\ queue'[1].train = submitted'
                  /\ event_log' = event_log
            /\ (queue = <<>> /\ Remaining = 0) => UNCHANGED vars
      ]_vars

\* The third step has returned after a train with switches to set, a train
\* with an unknown route and a siding train.
C18_Witness ==
    /\ driver = "step"
    /\ queue = <<>>
    /\ submitted = 3
    /\ proc[1].route \in Routes
    /\ proc[2].route \notin Routes
    /\ proc[3].route = "DOWN_SIDING"

\* ----------------------------------------------------------------- C19
\* The sum of the dwells of a route under timing constants c.
RouteTotal(c, route) ==
    LET tr == RouteTracks(route)
        part[i \in 0..Len(tr)] == IF i = 0 THEN 0 ELSE c[tr[i].dwell] + part[i - 1]
    IN  part[Len(tr)]

\* Only the observed handler has been called: nothing but its own
\* multiplier has touched the timing constants.
OnlyObserved ==
    /\ handlers[Observed].pc \in {"running", "returned"}
    /\ \A h \in Handlers \ {Observed} : handlers[h].pc = "idle"

\* C19: the multiplier m only scales time linearly: in a run under m alone
\* every train finishes after its spawning by the time it takes in the
\* unscaled run (the sum of the dwells of its route at the constants'
\* original values; under step() no train waits) divided by m.  With m = 2
\* a lone UP_MAIN train finishes 25 after it is spawned.
C19_LinearScaling ==
    OnlyObserved =>
        \A t \in 1..submitted : proc[t].pc = "done" =>
            LET m == handlers[Observed].multiplier
                spawned == event_log[EntryIdx(t, "spawned", "")].time
            IN  (FinishedTime(t) - spawned) * m.num =
                    RouteTotal(handlers[Observed].original_times, proc[t].route) * m.den

\* ----------------------------------------------------------------- C20
\* C20: the handlers restore the timing constants: whenever every handler
\* that has been called has returned, the four constants have the values
\* they had before the first handler started.
C20_TimesRestored ==
    (\A h \in Handlers : handlers[h].pc \in {"idle", "returned"}) =>
        times = InitialTimes

\* ------------------------------------------------------------------ C21
\* The track a train at a track step of its route has requested or is on.
CurrentTrack(t) == RouteTracks(proc[t].route)[proc[t].step].track

\* The dwells of train t on all the tracks of its route.
AllDwells(t) == DwellsBefore(t, Len(RouteTracks(proc[t].route)) + 1)

\* C21: a train never waits after its switches are granted.  No track has a
\* pending request in any state, and a train that has requested a track is
\* already its user; so, counted from the time of its 'points_set', each
\* 'enter_track' of a train is at the sum of its dwells on the tracks that
\* precede that track on its route, and its 'finished' is at the sum of all
\* the dwells of its route.
C21_NoTrackWait ==
    /\ \A r \in Tracks : put_queue[r] = <<>>
    /\ \A t \in Trains : proc[t].pc = "wait_track" => t \in users[CurrentTrack(t)]
    /\ \A t \in Trains :
          LET own == TrainLog(t)
          IN  \A i \in 1..Len(own) : own[i].event = "points_set" =>
                  \A k \in (i + 1)..Len(own) :
                      /\ own[k].event = "enter_track" =>
                            own[k].time = own[i].time +
                                DwellsBefore(t, TrackStep(t, own[k].details.track))
                      /\ own[k].event = "finished" =>
                            own[k].time = own[i].time + AllDwells(t)

\* A siding train that waited for its switches behind another train (its
\* 'points_set' is later than its 'spawned') has finished, after three
\* tracks, and a DOWN_PLATFORM train, which shares two of them, has entered
\* a track.
C21_Witness == \E t, o \in Trains, i, j \in 1..Len(event_log) :
    /\ proc[t].route = "DOWN_SIDING"
    /\ event_log[i].train_id = ToString(t) /\ event_log[i].event = "spawned"
    /\ event_log[j].train_id = ToString(t) /\ event_log[j].event = "points_set"
    /\ event_log[i].time < event_log[j].time
    /\ Logged(t, "finished")
    /\ o # t /\ proc[o].route = "DOWN_PLATFORM" /\ Logged(o, "enter_track")

\* ------------------------------------------------------------------ C22
\* The resources no path function names.
Unused == {"PX1", "PX2", "Mainline_Crossover"}

\* C22: in every state PX1 and PX2 are 'normal', and PX1, PX2 and the
\* mainline crossover track have no user and no pending request; and in
\* every step a P5 that is 'reverse' stays 'reverse', whichever train sets
\* its points in that step.
C22_UntouchedAndP5Sticky ==
    /\ [](/\ points["PX1"] = "normal"
          /\ points["PX2"] = "normal"
          /\ \A r \in Unused : users[r] = {} /\ put_queue[r] = <<>>)
    /\ [][points["P5"] = "reverse" => points'["P5"] = "reverse"]_vars

\* After a siding train has reversed P5, a DOWN_MAIN train has set P3 and
\* P4 back to 'normal' and run to its end, and some train has used the UP
\* switches as well.
C22_Witness == \E s, t, u \in Trains :
    /\ s < t
    /\ proc[s].route = "DOWN_SIDING" /\ Logged(s, "finished")
    /\ proc[t].route = "DOWN_MAIN" /\ Logged(t, "finished")
    /\ points["P3"] = "normal" /\ points["P4"] = "normal"
    /\ points["P5"] = "reverse"
    /\ proc[u].route = "UP_PLATFORM" /\ Logged(u, "finished")

=============================================================================
